---- MODULE Spec2Model ----
(***************************************************************************)
(* A model of the two functions of the `patterns` crate, generate_pattern  *)
(* and count_frequency, in their library (src/lib.rs) and driver           *)
(* (src/main.rs) variants, and of the test pipeline that maps              *)
(* generate_pattern over a batch of strings and counts the result.         *)
(***************************************************************************)
EXTENDS Integers, Sequences, FiniteSets, TLC

VARIABLES
  variant,    \* "lib": the functions of src/lib.rs; "main": those of src/main.rs
  strings,    \* the batch of input lines, each a sequence of Unicode scalar values
  cur,        \* index of the line generate_pattern is working on
  pos,        \* number of bytes of that line the loop has consumed
  total,      \* lib.rs generate_pattern: the u8 counter `total`
  stack,      \* lib.rs generate_pattern: the table `stack`, indexed by byte
  stackVec,   \* main.rs generate_pattern: the vector `stack` of bytes seen
  pattern,    \* generate_pattern: the vector `pattern` under construction
  overflow,   \* a u8 operation left the range of u8 (a panic in a debug build)
  patterns,   \* the patterns collected so far / the argument of count_frequency
  inserted,   \* count_frequency: number of patterns for_each has visited
  frequency,  \* count_frequency: the hash map `frequency`
  pending,    \* count_frequency: map entries the parallel iterator still holds
  acc,        \* count_frequency: the fold accumulator of each parallel piece
  counts,     \* the value count_frequency returned
  pc          \* "map", "build", "fold", "done", or "exited" after exit(1)

vars == <<variant, strings, cur, pos, total, stack, stackVec, pattern, overflow,
          patterns, inserted, frequency, pending, acc, counts, pc>>

(***************************************************************************)
(* Bounds of the model.                                                    *)
(***************************************************************************)
MaxLen == 3       \* characters per line, single-line scans
MaxBatch == 4     \* patterns per batch handed to count_frequency directly
NWorkers == 2     \* pieces the parallel iterator splits the map into
RunLen == 2       \* characters per line, whole-pipeline runs
RunLines == 2     \* lines per batch, whole-pipeline runs

(***************************************************************************)
(* Program constants.                                                      *)
(***************************************************************************)
RankModulusI8 == 2 ^ 7
RankModulus == 256    \* the element type u8 of total, stack and pattern

TableSize == 128      \* [0u8; 128]

Variants == {"lib", "main"}

(***************************************************************************)
(* Input strings.  A &str is valid UTF-8; as_bytes() yields its encoding.  *)
(***************************************************************************)
Utf8(cp) ==
  IF cp < 128 THEN <<cp>>
  ELSE IF cp < 2048 THEN <<192 + (cp \div 64), 128 + (cp % 64)>>
  ELSE IF cp < 65536
       THEN <<224 + (cp \div 4096), 128 + ((cp \div 64) % 64), 128 + (cp % 64)>>
       ELSE <<240 + (cp \div 262144), 128 + ((cp \div 4096) % 64),
              128 + ((cp \div 64) % 64), 128 + (cp % 64)>>

RECURSIVE as_bytes(_)
as_bytes(s) ==
  IF s = <<>> THEN <<>>
  ELSE IF Len(s) = 1 THEN Utf8(s[1])
  ELSE LET h == Len(s) \div 2
       IN as_bytes(SubSeq(s, 1, h)) \o as_bytes(SubSeq(s, h + 1, Len(s)))

\* 'A', 'B', 'C' and U+00DC, whose encoding is the two bytes 195, 156
Chars == {65, 66, 67, 220}

SeqsUpTo(S, n) == UNION {[1..k -> S] : k \in 0..n}
StringsUpTo(n) == SeqsUpTo(Chars, n)

\* A string whose bytes take every value a valid UTF-8 string can hold:
\* all of ASCII, then two-, three- and four-byte characters covering every
\* lead byte (194..244) and every continuation byte (128..191).
AllAscii == [i \in 1..128 |-> i - 1]
WideString ==
  AllAscii
  \o [i \in 1..64 |-> (2 + ((i - 1) % 30)) * 64 + (i - 1)]
  \o [i \in 1..16 |-> IF i = 1 THEN 2048 ELSE (i - 1) * 4096]
  \o [i \in 1..5 |-> IF i = 1 THEN 65536 ELSE (i - 1) * 262144]
WideStrings == {AllAscii, AllAscii \o AllAscii, WideString}

MainTestStrings ==
  << <<76, 65, 76, 65, 76, 65>>, <<88, 79, 88, 79, 88, 79>>,
     <<71, 67, 71, 67, 71, 67>>, <<72, 72, 72, 67, 67, 67>>,
     <<66, 66, 66, 77, 77, 77>>, <<69, 71, 79, 78, 85, 72>>,
     <<72, 72, 82, 71, 79, 69>> >>
LibTestStrings ==
  << <<76, 65, 76, 65, 76, 65>>, <<88, 79, 88, 79, 88, 79>>,
     <<71, 67, 71, 67, 71, 67, 220>>, <<72, 72, 72, 67, 67, 67>>,
     <<66, 66, 66, 77, 77, 77>>, <<69, 71, 79, 78, 85, 72>>,
     <<72, 72, 82, 71, 79, 69>> >>

(***************************************************************************)
(* u8 arithmetic.  The value wraps (release build) and the step is         *)
(* recorded in `overflow` (a debug build panics there instead).            *)
(***************************************************************************)
U8(n) == n % RankModulus
Wraps(n) == n < 0 \/ n >= RankModulus

(***************************************************************************)
(* generate_pattern, src/lib.rs: one iteration of the loop over the bytes. *)
(* st holds the locals total, stack, pattern; exited is set by exit(1).    *)
(***************************************************************************)
LibLocals == [total |-> 0, stack |-> [b \in 0..(TableSize - 1) |-> 0],
              pattern |-> <<>>, overflow |-> FALSE, exited |-> FALSE]

\* total += 1
BumpTwice(t) == t + 2
Bump(t) == t + 1

\* the value of pattern.push(*needle - 1)
RankRaw(needle) == needle
Rank(needle) == needle - 1

LibStep(st, byte) ==
  IF byte < TableSize
  THEN LET fresh == st.stack[byte] = 0
           newTotal == IF fresh THEN U8(Bump(st.total)) ELSE st.total
           needle == IF fresh THEN newTotal ELSE st.stack[byte]
       IN [total |-> newTotal,
           stack |-> [st.stack EXCEPT ![byte] = needle],
           pattern |-> Append(st.pattern, U8(Rank(needle))),
           overflow |-> \/ st.overflow
                        \/ fresh /\ Wraps(Bump(st.total))
                        \/ Wraps(Rank(needle)),
           exited |-> FALSE]
  ELSE [st EXCEPT !.exited = TRUE]

(***************************************************************************)
(* generate_pattern, src/main.rs: one iteration of the loop.               *)
(***************************************************************************)
MainLocals == [stack |-> <<>>, pattern |-> <<>>, overflow |-> FALSE]

\* stack.iter().position(|&elem| elem == byte), -1 for None
PositionByAddress(stk, byte) == -1
Position(stk, byte) ==
  LET hits == {i \in 1..Len(stk) : stk[i] = byte}
  IN IF hits = {} THEN -1
     ELSE (CHOOSE i \in hits : \A j \in hits : i <= j) - 1

MainStep(st, byte) ==
  LET needle == Position(st.stack, byte)
  IN IF needle >= 0
     THEN [stack |-> st.stack,
           pattern |-> Append(st.pattern, U8(needle)),
           overflow |-> st.overflow \/ Wraps(needle)]
     ELSE LET len == Len(st.stack) + 1
          IN [stack |-> Append(st.stack, byte),
              pattern |-> Append(st.pattern, U8(U8(len) - 1)),
              overflow |-> st.overflow \/ Wraps(len) \/ Wraps(U8(len) - 1)]

(***************************************************************************)
(* generate_pattern as a function of its argument: the loop run to its end *)
(* (or to exit(1)).                                                        *)
(***************************************************************************)
RECURSIVE LibLoop(_, _)
LibLoop(st, bytes) ==
  IF bytes = <<>> \/ st.exited THEN st
  ELSE LibLoop(LibStep(st, Head(bytes)), Tail(bytes))

RECURSIVE MainLoop(_, _)
MainLoop(st, bytes) ==
  IF bytes = <<>> THEN st ELSE MainLoop(MainStep(st, Head(bytes)), Tail(bytes))

generate_pattern(v, haystack) ==
  IF v = "lib" THEN LibLoop(LibLocals, as_bytes(haystack)).pattern
  ELSE MainLoop(MainLocals, as_bytes(haystack)).pattern

(***************************************************************************)
(* The state machine: generate_pattern, one loop iteration per step.       *)
(***************************************************************************)
haystack == as_bytes(strings[cur])

Scanning == pc = "map" /\ cur <= Len(strings) /\ pos < Len(haystack)

LibScan ==
  /\ Scanning /\ variant = "lib"
  /\ LET st == LibStep([total |-> total, stack |-> stack, pattern |-> pattern,
                        overflow |-> overflow, exited |-> FALSE],
                       haystack[pos + 1])
     IN /\ total' = st.total
        /\ stack' = st.stack
        /\ pattern' = st.pattern
        /\ overflow' = st.overflow
        /\ pc' = IF st.exited THEN "exited" ELSE pc
        /\ pos' = IF st.exited THEN pos ELSE pos + 1
  /\ UNCHANGED <<variant, strings, cur, stackVec, patterns, inserted, frequency,
                 pending, acc, counts>>

MainScan ==
  /\ Scanning /\ variant = "main"
  /\ LET st == MainStep([stack |-> stackVec, pattern |-> pattern,
                         overflow |-> overflow], haystack[pos + 1])
     IN /\ stackVec' = st.stack
        /\ pattern' = st.pattern
        /\ overflow' = st.overflow
  /\ pos' = pos + 1
  /\ UNCHANGED <<variant, strings, cur, total, stack, patterns, inserted,
                 frequency, pending, acc, counts, pc>>

\* generate_pattern returns `pattern`; the caller's map(..).collect() keeps
\* it and goes on to the next line, with fresh locals.
Collect ==
  /\ pc = "map" /\ cur <= Len(strings) /\ pos = Len(haystack)
  /\ patterns' = Append(patterns, pattern)
  /\ cur' = cur + 1
  /\ pos' = 0
  /\ total' = LibLocals.total
  /\ stack' = LibLocals.stack
  /\ stackVec' = MainLocals.stack
  /\ pattern' = <<>>
  /\ UNCHANGED <<variant, strings, overflow, inserted, frequency, pending, acc,
                 counts, pc>>

(***************************************************************************)
(* count_frequency (the same in src/lib.rs and src/main.rs, up to          *)
(* borrowing): the frequency table, then filter, fold and sum over it.     *)
(***************************************************************************)
EmptyMap == [p \in {} |-> 0]

\* *frequency.entry(pattern).or_insert(0) += 1
Entry(freq, p) ==
  IF p \in DOMAIN freq
  THEN [freq EXCEPT ![p] = @ + 1]
  ELSE [q \in DOMAIN freq \cup {p} |-> IF q = p THEN 0 + 1 ELSE freq[q]]

\* .filter(|&(_, &v)| v > 1)
RetainOver2(v) == v > 2
Retain(v) == v > 1

\* .fold(|| 0, |acc, entry| acc + entry.1)
FoldLast(a, v) == v
FoldExtra(a, v) == a + (v - 1)
Fold(a, v) == a + v

\* .sum()
RECURSIVE Sum(_, _)
Sum(f, S) ==
  IF S = {} THEN 0
  ELSE LET x == CHOOSE y \in S : TRUE IN f[x] + Sum(f, S \ {x})

\* the caller's count_frequency(patterns), once map(..).collect() is done
CallCount ==
  /\ pc = "map" /\ cur > Len(strings)
  /\ pc' = "build"
  /\ inserted' = 0
  /\ frequency' = EmptyMap
  /\ UNCHANGED <<variant, strings, cur, pos, total, stack, stackVec, pattern,
                 overflow, patterns, pending, acc, counts>>

\* one item of patterns.iter().for_each(..)
Insert ==
  /\ pc = "build" /\ inserted < Len(patterns)
  /\ frequency' = Entry(frequency, patterns[inserted + 1])
  /\ inserted' = inserted + 1
  /\ UNCHANGED <<variant, strings, cur, pos, total, stack, stackVec, pattern,
                 overflow, patterns, pending, acc, counts, pc>>

\* frequency.par_iter(): the entries are handed to the pieces of the pool,
\* each piece starting its fold from the identity 0
ParIter ==
  /\ pc = "build" /\ inserted = Len(patterns)
  /\ pending' = DOMAIN frequency
  /\ acc' = [w \in 1..NWorkers |-> 0]
  /\ pc' = "fold"
  /\ UNCHANGED <<variant, strings, cur, pos, total, stack, stackVec, pattern,
                 overflow, patterns, inserted, frequency, counts>>

\* one entry passes filter and fold in some piece
FilterFold ==
  /\ pc = "fold"
  /\ \E w \in 1..NWorkers, k \in pending :
       /\ acc' = [acc EXCEPT ![w] = IF Retain(frequency[k])
                                     THEN Fold(@, frequency[k]) ELSE @]
       /\ pending' = pending \ {k}
  /\ UNCHANGED <<variant, strings, cur, pos, total, stack, stackVec, pattern,
                 overflow, patterns, inserted, frequency, counts, pc>>

\* .sum() of the pieces' accumulators; count_frequency returns
SumReturn ==
  /\ pc = "fold" /\ pending = {}
  /\ counts' = Sum(acc, 1..NWorkers)
  /\ pc' = "done"
  /\ UNCHANGED <<variant, strings, cur, pos, total, stack, stackVec, pattern,
                 overflow, patterns, inserted, frequency, pending, acc>>

\* count_frequency as a function of its argument, the entries taken by one
\* piece in some order
RECURSIVE Tabulate(_, _)
Tabulate(freq, pats) ==
  IF pats = <<>> THEN freq ELSE Tabulate(Entry(freq, Head(pats)), Tail(pats))

RECURSIVE FoldAll(_, _, _)
FoldAll(a, freq, keys) ==
  IF keys = {} THEN a
  ELSE LET k == CHOOSE x \in keys : TRUE
       IN FoldAll(IF Retain(freq[k]) THEN Fold(a, freq[k]) ELSE a,
                  freq, keys \ {k})

count_frequency(pats) ==
  LET freq == Tabulate(EmptyMap, pats) IN FoldAll(0, freq, DOMAIN freq)

(***************************************************************************)
(* Initial states and specifications.                                      *)
(***************************************************************************)
InitLocals ==
  /\ cur = 1 /\ pos = 0
  /\ total = LibLocals.total /\ stack = LibLocals.stack
  /\ stackVec = MainLocals.stack
  /\ pattern = <<>> /\ overflow = FALSE
  /\ inserted = 0 /\ frequency = EmptyMap
  /\ pending = {} /\ acc = [w \in 1..NWorkers |-> 0] /\ counts = 0

\* one call of generate_pattern
InitScan ==
  /\ variant \in Variants
  /\ strings \in {<<s>> : s \in StringsUpTo(MaxLen) \cup WideStrings}
  /\ patterns = <<>>
  /\ pc = "map"
  /\ InitLocals

NextScan == LibScan \/ MainScan \/ Collect

SpecScan == InitScan /\ [][NextScan]_vars

\* one call of count_frequency, on any batch of vectors
PatternPool == {<<>>, <<0>>, <<0, 0>>, <<0, 1>>}
Batches == SeqsUpTo(PatternPool, MaxBatch)

InitCount ==
  /\ variant \in Variants
  /\ strings = <<>>
  /\ patterns \in Batches
  /\ pc = "build"
  /\ InitLocals

NextCount == Insert \/ ParIter \/ FilterFold \/ SumReturn

SpecCount == InitCount /\ [][NextCount]_vars

\* the pipeline of the tests: map generate_pattern, collect, count_frequency
RunChars == {65, 66}
RunBatches == SeqsUpTo(SeqsUpTo(RunChars, RunLen), RunLines)

Init ==
  /\ variant \in Variants
  /\ strings \in {MainTestStrings, LibTestStrings} \cup RunBatches
  /\ patterns = <<>>
  /\ pc = "map"
  /\ InitLocals

Next ==
  \/ LibScan \/ MainScan \/ Collect \/ CallCount
  \/ Insert \/ ParIter \/ FilterFold \/ SumReturn

Spec == Init /\ [][Next]_vars

(***************************************************************************)
(* Notions the properties are stated in.                                   *)
(***************************************************************************)
Range(q) == {q[i] : i \in DOMAIN q}

\* every byte of the line indexes the 128-slot table
InRange(bytes) == \A i \in DOMAIN bytes : bytes[i] < TableSize

\* index of the first occurrence of byte b in `bytes`
FirstIndex(bytes, b) ==
  LET at == {i \in DOMAIN bytes : bytes[i] = b}
  IN CHOOSE i \in at : \A j \in at : i <= j

\* the 0-indexed rank of first appearance of byte b of `bytes`: the number
\* of distinct bytes that occur before the first occurrence of b
FirstRank(bytes, b) ==
  Cardinality(Range(SubSeq(bytes, 1, FirstIndex(bytes, b) - 1)))

\* t is s under a bijection between the bytes of s and the bytes of t
Renaming(s, t) ==
  /\ Len(s) = Len(t)
  /\ \E f \in [Range(s) -> Range(t)] :
       /\ \A a, b \in Range(s) : f[a] = f[b] => a = b
       /\ {f[a] : a \in Range(s)} = Range(t)
       /\ \A i \in DOMAIN s : t[i] = f[s[i]]

\* number of occurrences of p in the batch
Occurrences(batch, p) == Cardinality({i \in DOMAIN batch : batch[i] = p})

\* the patterns of the batch that occur at least twice
Recurring(batch) == {p \in Range(batch) : Occurrences(batch, p) >= 2}

\* the rearrangements of the batch
Rearranged(batch) ==
  {[i \in DOMAIN batch |-> batch[f[i]]] : f \in Permutations(DOMAIN batch)}

Other(v) == IF v = "lib" THEN "main" ELSE "lib"

\* generate_pattern has returned for the line of a single-line scan
Returned == Len(patterns) = 1

(***************************************************************************)
(* Properties.                                                             *)
(***************************************************************************)

\* C1: for the batch LALALA, XOXOXO, GCGCGC, HHHCCC, BBBMMM, EGONUH, HHRGOE,
\* generate_pattern on every string and count_frequency on the patterns
\* returns 5.
C1_TestCount ==
  (strings = MainTestStrings /\ pc = "done") => counts = 5

C1_Witness ==
  /\ variant = "main" /\ strings = MainTestStrings /\ pc = "done"
  /\ counts = 5
  /\ Cardinality(DOMAIN frequency) = 4

\* C2: count_frequency returns the sum, over the distinct patterns occurring
\* at least twice in the batch, of their numbers of occurrences; a pattern
\* occurring once contributes 0, and the empty batch yields 0.
C2_SumOfRecurring ==
  pc = "done" =>
    /\ counts = Sum([p \in Recurring(patterns) |-> Occurrences(patterns, p)],
                    Recurring(patterns))
    /\ counts = Cardinality({i \in DOMAIN patterns :
                               Occurrences(patterns, patterns[i]) >= 2})
    /\ patterns = <<>> => counts = 0

C2_Witness ==
  /\ pc = "done"
  /\ \E p, q \in Range(patterns) :
       Occurrences(patterns, p) = 3 /\ Occurrences(patterns, q) = 1
  /\ counts = 3

\* C3: for a line whose bytes are all below 128, the pattern the library's
\* generate_pattern returns has the length of the line, and its element i is
\* the number of distinct bytes first seen before the first occurrence of
\* byte i of the line; the empty line gives the empty pattern.
C3_RankOfFirstAppearance ==
  (variant = "lib" /\ Returned /\ InRange(as_bytes(strings[1]))) =>
    LET bytes == as_bytes(strings[1])
    IN /\ Len(patterns[1]) = Len(bytes)
       /\ \A i \in DOMAIN bytes : patterns[1][i] = FirstRank(bytes, bytes[i])
       /\ bytes = <<>> => patterns[1] = <<>>

C3_Witness ==
  /\ variant = "lib" /\ Returned
  /\ strings[1] = <<65, 66, 65>>
  /\ patterns[1] = <<0, 1, 0>>

\* C4: for lines s and t with all bytes below 128, generate_pattern gives
\* them the same pattern exactly when they have the same length and a
\* bijection between their bytes maps s to t position by position.
C4_SamePatternIffRenaming ==
  (Returned /\ InRange(as_bytes(strings[1]))) =>
    \A t \in StringsUpTo(MaxLen) :
      InRange(as_bytes(t)) =>
        ((generate_pattern(variant, t) = patterns[1])
           <=> Renaming(as_bytes(strings[1]), as_bytes(t)))

C4_Witness ==
  /\ Returned
  /\ strings[1] = <<65, 66, 65>>
  /\ patterns[1] = generate_pattern(variant, <<67, 65, 67>>)
  /\ patterns[1] # generate_pattern(variant, <<67, 65, 65>>)

\* C5: on a line with a byte of value 128 or more, the library's
\* generate_pattern neither ends the process nor returns a pattern.
C5_TypedFailure ==
  (variant = "lib" /\ ~InRange(as_bytes(strings[1]))) =>
    (pc # "exited" /\ patterns = <<>>)

\* C6: the count is the same for every rearrangement of the batch and for
\* every way the table's entries are split among the pieces of the parallel
\* fold.
C6_OrderInvariant ==
  pc = "done" => \A batch \in Rearranged(patterns) : count_frequency(batch) = counts

C6_Witness ==
  /\ pc = "done"
  /\ Cardinality(Recurring(patterns)) = 2
  /\ \A w \in 1..2 : acc[w] = 2
  /\ patterns[1] # patterns[2]
  /\ counts = 4

\* C7: the library's test, whose third string is GCGCGC followed by U+00DC,
\* runs generate_pattern on every string to completion, and count_frequency
\* returns 5.
C7_LibTestCount ==
  (variant = "lib" /\ strings = LibTestStrings) =>
    (pc # "exited" /\ (pc = "done" => counts = 5))

\* C8: during the library's scan a slot of the table is non-zero exactly when
\* its byte has been seen, total is the number of distinct bytes seen, the
\* ranks handed out are 0, 1, 2, .. in order of first appearance without gap
\* or reuse, and a byte's rank never changes once handed out.
C8_ScanState ==
  (variant = "lib" /\ cur <= Len(strings)) =>
    LET seen == SubSeq(haystack, 1, pos)
    IN /\ \A b \in 0..(TableSize - 1) : stack[b] # 0 <=> b \in Range(seen)
       /\ total = Cardinality(Range(seen))
       /\ \A b \in Range(seen) : stack[b] - 1 = FirstRank(seen, b)
       /\ {stack[b] - 1 : b \in Range(seen)} = 0..(total - 1)

C8_ScanStep ==
  (variant = "lib" /\ cur' = cur) =>
    /\ \A b \in 0..(TableSize - 1) : stack[b] # 0 => stack'[b] = stack[b]
    /\ \A b \in 0..(TableSize - 1) :
         (stack[b] = 0 /\ stack'[b] # 0) =>
           (stack'[b] = total + 1 /\ total' = total + 1)
    /\ total' \in {total, total + 1}

C8_RanksInOrderOfAppearance == [](C8_ScanState) /\ [][C8_ScanStep]_vars

C8_Witness ==
  /\ variant = "lib" /\ pc = "map" /\ cur = 1
  /\ strings[1] = <<66, 65, 66>> /\ pos = 3
  /\ total = 2 /\ stack[66] = 1 /\ stack[65] = 2

\* C9: no step of either generate_pattern leaves the range of u8: neither
\* total += 1 nor *needle - 1 in the library, nor the casts and the
\* subtraction of stack.len() as u8 - 1 in the driver; no rank is wrapped.
C9_NoWraparound ==
  /\ ~overflow
  /\ \A i \in DOMAIN pattern : pattern[i] <= i - 1

C9_Witness ==
  /\ variant = "main" /\ strings[1] = WideString
  /\ Len(stackVec) = 243 /\ pattern[Len(pattern)] = 242
  /\ ~overflow

\* C10: on lines whose bytes are all below 128 the generate_pattern of
\* src/lib.rs and that of src/main.rs return the same pattern, and so the
\* counts of the two pipelines agree on a batch of such lines.
C10_VariantsAgree ==
  /\ \A n \in DOMAIN patterns :
       InRange(as_bytes(strings[n])) =>
         patterns[n] = generate_pattern(Other(variant), strings[n])
  /\ (pc = "done" /\ \A n \in DOMAIN strings : InRange(as_bytes(strings[n]))) =>
       counts = count_frequency([n \in DOMAIN strings |->
                                   generate_pattern(Other(variant), strings[n])])

C10_Witness ==
  /\ pc = "done" /\ variant = "lib"
  /\ strings = <<(<<65, 66>>), (<<66, 65>>)>>
  /\ patterns = <<(<<0, 1>>), (<<0, 1>>)>>
  /\ counts = 2

====
